---- MODULE Spec2Model ----
(***************************************************************************)
(* Resource-management backend (src/server.js): users, projects and        *)
(* time-bound assignments held in a document store, a capacity calculator  *)
(* over overlapping assignment windows, and the HTTP handlers in front of  *)
(* them, each behind the authenticateToken / requireManager middleware.    *)
(*                                                                         *)
(* Object ids are naturals handed out by per-collection counters; every id *)
(* in a request is a well-formed ObjectId.  Dates are day numbers of the   *)
(* year 2025: the code only compares and sorts dates, which day numbers    *)
(* preserve.  Users enter the store through the seed endpoint.             *)
(***************************************************************************)
EXTENDS Integers, Sequences, FiniteSets, TLC

VARIABLES users, projects, assignments, nextId, writes, req, resp, inflight

vars == <<users, projects, assignments, nextId, writes, req, resp, inflight>>

store == <<users, projects, assignments>>

(***************************************************************************)
(* Bounds of the model.                                                    *)
(***************************************************************************)
\* Requests that change the store, over one run.
MaxWrites == 3

\* POST /api/assignments requests in flight together.
MaxInFlight == 2

(***************************************************************************)
(* Dates.  A request carries dates as strings; new Date(string) parses     *)
(* them, an unparsable string giving an Invalid Date.                      *)
(***************************************************************************)
DayOfYear ==
    ("2025-06-01" :> 152) @@ ("2025-06-15" :> 166) @@ ("2025-07-01" :> 182) @@
    ("2025-08-01" :> 213) @@ ("2025-08-30" :> 242) @@ ("2025-09-30" :> 273) @@
    ("2025-10-15" :> 288)

NewDate(str) ==
    IF str \in DOMAIN DayOfYear
    THEN [valid |-> TRUE, t |-> DayOfYear[str]]
    ELSE [valid |-> FALSE, t |-> 0]

(***************************************************************************)
(* Request bodies are functions from field names to values; a field the    *)
(* client left out is outside the domain (undefined in the handler).       *)
(***************************************************************************)
Has(body, f) == f \in DOMAIN body

Omit(body, f) == [g \in DOMAIN body \ {f} |-> body[g]]

EmptyBody == [g \in {} |-> 0]

\* JavaScript's !x on a destructured body field: undefined, 0 and "" are falsy.
Falsy(body, f) ==
    \/ ~Has(body, f)
    \/ f = "allocationPercentage" /\ body[f] = 0
    \/ f \in {"startDate", "endDate", "role"} /\ body[f] = ""

\* A well-formed ObjectId that no document carries; the counters hand out
\* ids from 1.
NoSuchId == 0

(***************************************************************************)
(* Tokens.  A token is absent, fails verification, or verifies to the      *)
(* payload {userId, role} signed at login.                                 *)
(***************************************************************************)
NoToken == [kind |-> "none", userId |-> 0, role |-> ""]

BadToken == [kind |-> "bad", userId |-> 0, role |-> ""]

Reply(status, error) == [status |-> status, error |-> error]

\* A middleware that calls next() instead of ending the request.
CallsNext == Reply(0, "")

\* authenticateToken: 401 without a token, 403 when verification fails,
\* next() otherwise.
authenticateToken(tok) ==
    IF tok.kind = "none" THEN Reply(401, "Access token required")
    ELSE IF tok.kind = "bad" THEN Reply(403, "Invalid token")
    ELSE CallsNext

requireManagerOpen(tok) == CallsNext

\* requireManager: 403 unless the verified payload's role is manager.
requireManager(tok) ==
    IF tok.role # "manager" THEN Reply(403, "Manager access required") ELSE CallsNext

Middleware(name, tok) ==
    IF name = "authenticateToken" THEN authenticateToken(tok) ELSE requireManager(tok)

\* Express runs a route's callbacks in registration order; each either ends
\* the request with a status or calls next().  The result is the status that
\* ended the request (0 when the handler is reached) and the callbacks that ran.
RECURSIVE RunChain(_, _, _)
RunChain(chain, tok, ran) ==
    IF chain = <<>>
    THEN [status |-> 0, error |-> "", stages |-> Append(ran, "handler")]
    ELSE LET r == Middleware(Head(chain), tok)
         IN  IF r # CallsNext
             THEN [status |-> r.status, error |-> r.error,
                   stages |-> Append(ran, Head(chain))]
             ELSE RunChain(Tail(chain), tok, Append(ran, Head(chain)))

TokenChain == <<"authenticateToken">>

ManagerChain == <<"authenticateToken", "requireManager">>

(***************************************************************************)
(* Store queries.                                                          *)
(***************************************************************************)
FindById(coll, id) == {d \in coll : d.id = id}

RECURSIVE SumAllocation(_)
SumAllocation(as) ==
    IF as = {} THEN 0
    ELSE LET a == CHOOSE x \in as : TRUE
         IN  a.allocationPercentage + SumAllocation(as \ {a})

OverlapsExclusive(a, startDate, endDate) ==
    a.startDate < endDate /\ a.endDate > startDate

\* The filter of the overlap query: startDate <= endDate of the query and
\* endDate >= startDate of the query.
Overlaps(a, startDate, endDate) ==
    a.startDate <= endDate /\ a.endDate >= startDate

Max(x, y) == IF x >= y THEN x ELSE y

\* The capacity of an engineer none of whose assignments is counted.
getAvailableCapacityUnallocated(us, as, engineerId, startDate, endDate) ==
    IF FindById(us, engineerId) = {} THEN 0
    ELSE IF ~startDate.valid \/ ~endDate.valid THEN 0
    ELSE Max(0, (CHOOSE u \in us : u.id = engineerId).maxCapacity)

\* getAvailableCapacity over the users and assignments it reads.  A query
\* built from an Invalid Date is rejected by the store and the catch block
\* returns 0.
getAvailableCapacity(us, as, engineerId, startDate, endDate) ==
    IF FindById(us, engineerId) = {} THEN 0
    ELSE IF ~startDate.valid \/ ~endDate.valid THEN 0
    ELSE LET engineer == CHOOSE u \in us : u.id = engineerId
             overlapping == {a \in as : /\ a.engineerId = engineerId
                                        /\ Overlaps(a, startDate.t, endDate.t)}
         IN  Max(0, engineer.maxCapacity - SumAllocation(overlapping))

(***************************************************************************)
(* Responses.                                                              *)
(***************************************************************************)
Response(status, error, stages) ==
    [status |-> status, error |-> error, stages |-> stages,
     capacity |-> 0, list |-> <<>>, utilization |-> {}]

Request(route, tok, id, body) ==
    [route |-> route, token |-> tok, id |-> id, body |-> body]

NoRequest == Request("none", NoToken, 0, EmptyBody)

NoResponse == Response(0, "", <<>>)

Idle == [pc |-> "idle"]

\* A handler that runs in one piece starts when no such request is being
\* answered, and Complete ends the request it answered.
Ready == req = NoRequest

Complete ==
    /\ req # NoRequest
    /\ req' = NoRequest
    /\ resp' = NoResponse
    /\ UNCHANGED <<users, projects, assignments, nextId, writes, inflight>>

Init ==
    /\ users = {}
    /\ projects = {}
    /\ assignments = {}
    /\ nextId = [user |-> 1, project |-> 1, assignment |-> 1]
    /\ writes = 0
    /\ req = NoRequest
    /\ resp = NoResponse
    /\ inflight = [i \in 1..MaxInFlight |-> Idle]

(***************************************************************************)
(* POST /api/seed: wipes the three collections and inserts the sample      *)
(* data under fresh ids.  No middleware.                                   *)
(***************************************************************************)
SeedUsers(n) ==
    { [id |-> n,     email |-> "manager@company.com", role |-> "manager",  maxCapacity |-> 100],
      [id |-> n + 1, email |-> "john@company.com",    role |-> "engineer", maxCapacity |-> 100],
      [id |-> n + 2, email |-> "alice@company.com",   role |-> "engineer", maxCapacity |-> 100],
      [id |-> n + 3, email |-> "bob@company.com",     role |-> "engineer", maxCapacity |-> 50] }

SeedProjects(p, n) ==
    { [id |-> p,     name |-> "E-commerce Platform", managerId |-> n],
      [id |-> p + 1, name |-> "Mobile App Backend",  managerId |-> n],
      [id |-> p + 2, name |-> "Dashboard Analytics", managerId |-> n] }

SeedAssignments(a, p, n) ==
    { [id |-> a, engineerId |-> n + 1, projectId |-> p, allocationPercentage |-> 60,
       startDate |-> NewDate("2025-06-01").t, endDate |-> NewDate("2025-09-30").t,
       role |-> "Tech Lead"],
      [id |-> a + 1, engineerId |-> n + 2, projectId |-> p + 1, allocationPercentage |-> 80,
       startDate |-> NewDate("2025-07-01").t, endDate |-> NewDate("2025-10-15").t,
       role |-> "Backend Developer"],
      [id |-> a + 2, engineerId |-> n + 3, projectId |-> p + 2, allocationPercentage |-> 40,
       startDate |-> NewDate("2025-06-15").t, endDate |-> NewDate("2025-08-30").t,
       role |-> "Frontend Developer"] }

Seed ==
    /\ writes < MaxWrites
    /\ writes' = writes + 1
    /\ users' = SeedUsers(nextId.user)
    /\ projects' = SeedProjects(nextId.project, nextId.user)
    /\ assignments' = SeedAssignments(nextId.assignment, nextId.project, nextId.user)
    /\ nextId' = [user |-> nextId.user + 4, project |-> nextId.project + 3,
                  assignment |-> nextId.assignment + 3]
    /\ req' = Request("POST /api/seed", NoToken, 0, EmptyBody)
    /\ resp' = Response(200, "", <<"handler">>)
    /\ UNCHANGED inflight

(***************************************************************************)
(* Inputs of the requests.                                                 *)
(***************************************************************************)
\* Payloads the server has signed: one per user it has ever stored (a token
\* outlives a wipe of the users collection).  Seeding stores a manager first
\* and three engineers after it.
SignedTokens ==
    { [kind |-> "valid", userId |-> i,
       role |-> IF (i - 1) % 4 = 0 THEN "manager" ELSE "engineer"] :
      i \in 1..(nextId.user - 1) }

\* No token, a bad token, and the tokens of the manager, John and Alice.
TokenInputs == {NoToken, BadToken} \cup {t \in SignedTokens : (t.userId - 1) % 4 # 3}

\* The same without Alice, for the routes that also take an id or a body.
GateInputs == {t \in TokenInputs : (t.userId - 1) % 4 # 2}

ManagerTokens == {t \in SignedTokens : t.role = "manager"}

EngineerIdInputs ==
    {u.id : u \in {v \in users : v.email = "john@company.com"}} \cup {NoSuchId}

ProjectIdInputs == {p.id : p \in projects} \cup {NoSuchId}

AssignedProjectInputs ==
    {p.id : p \in {q \in projects : q.name = "E-commerce Platform"}} \cup {NoSuchId}

AssignmentIdInputs == {a.id : a \in assignments} \cup {NoSuchId}

AllocationInputs == {0, 30, 60, 0 - 10}

StartInputs == {"2025-07-01", "2025-08-01", "not-a-date"}

EndInputs == {"2025-07-01", "2025-08-01"}

RequiredFields ==
    {"engineerId", "projectId", "allocationPercentage", "startDate", "endDate", "role"}

FullBodies ==
    { [engineerId |-> e, projectId |-> p, allocationPercentage |-> x,
       startDate |-> s, endDate |-> d, role |-> "Developer"] :
      e \in EngineerIdInputs, p \in AssignedProjectInputs, x \in AllocationInputs,
      s \in StartInputs, d \in EndInputs }

\* Complete bodies, and bodies with one of the six fields left out.
CreateBodies ==
    FullBodies \cup
    { Omit(b, f) : b \in {c \in FullBodies : /\ c.allocationPercentage = 30
                                              /\ c.startDate = "2025-07-01"
                                              /\ c.endDate = "2025-08-01"},
                   f \in RequiredFields }

UpdateBodies ==
    { EmptyBody,
      [allocationPercentage |-> 90],
      [allocationPercentage |-> 150],
      [startDate |-> "2025-08-01", endDate |-> "2025-07-01"],
      [startDate |-> "not-a-date"] }

(***************************************************************************)
(* GET /api/engineers/:id/capacity?startDate&endDate                       *)
(***************************************************************************)
GetCapacity(tok, id, startDate, endDate) ==
    LET gate == RunChain(TokenChain, tok, <<>>)
    IN  /\ req' = Request("GET /api/engineers/:id/capacity", tok, id,
                          [startDate |-> startDate, endDate |-> endDate])
        /\ resp' = IF gate.status # 0
                   THEN Response(gate.status, gate.error, gate.stages)
                   ELSE [Response(200, "", gate.stages) EXCEPT
                           !.capacity = getAvailableCapacity(users, assignments, id,
                                            NewDate(startDate), NewDate(endDate))]
        /\ UNCHANGED <<users, projects, assignments, nextId, writes, inflight>>

(***************************************************************************)
(* GET /api/assignments                                                    *)
(***************************************************************************)
\* Assignment.find(query): every assignment for a manager, the caller's own
\* for an engineer.
ListQueryUnfiltered(tok, as) == as

ListQuery(tok, as) ==
    IF tok.role = "engineer" THEN {a \in as : a.engineerId = tok.userId} ELSE as

\* .sort({startDate: -1}): the matching documents, latest start first; the
\* store fixes no order among equal start dates.
SortedByStartDesc(as) ==
    { q \in [1..Cardinality(as) -> as] :
        /\ \A a \in as : \E i \in DOMAIN q : q[i] = a
        /\ \A i, j \in DOMAIN q : i < j => q[i].startDate >= q[j].startDate }

ListAssignments(tok) ==
    LET gate == RunChain(TokenChain, tok, <<>>)
    IN  /\ req' = Request("GET /api/assignments", tok, 0, EmptyBody)
        /\ IF gate.status # 0
           THEN resp' = Response(gate.status, gate.error, gate.stages)
           ELSE \E q \in SortedByStartDesc(ListQuery(tok, assignments)) :
                    resp' = [Response(200, "", gate.stages) EXCEPT !.list = q]
        /\ UNCHANGED <<users, projects, assignments, nextId, writes, inflight>>

(***************************************************************************)
(* POST /api/assignments                                                   *)
(***************************************************************************)
\* "Validate required fields": any of the six falsy.
MissingRequired(body) == \E f \in RequiredFields : Falsy(body, f)

ExceedsCapacityNever(allocationPercentage, availableCapacity) == FALSE

\* allocationPercentage > availableCapacity
ExceedsCapacity(allocationPercentage, availableCapacity) ==
    allocationPercentage > availableCapacity

\* Schema validation of assignment.save(): allocationPercentage within
\* min 0 / max 100, both dates castable.
Validates(allocationPercentage, startDate, endDate) ==
    /\ allocationPercentage >= 0
    /\ allocationPercentage <= 100
    /\ startDate.valid
    /\ endDate.valid

NewAssignment(id, body) ==
    [id |-> id, engineerId |-> body.engineerId, projectId |-> body.projectId,
     allocationPercentage |-> body.allocationPercentage,
     startDate |-> NewDate(body.startDate).t, endDate |-> NewDate(body.endDate).t,
     role |-> body.role]

\* The handler's checks in the order of the code, over the store it reads.
CreateOutcome(us, ps, as, body) ==
    IF MissingRequired(body) THEN Reply(400, "Missing required fields")
    ELSE IF FindById(us, body.engineerId) = {} THEN Reply(404, "Engineer not found")
    ELSE IF FindById(ps, body.projectId) = {} THEN Reply(404, "Project not found")
    ELSE IF ExceedsCapacity(body.allocationPercentage,
                getAvailableCapacity(us, as, body.engineerId,
                    NewDate(body.startDate), NewDate(body.endDate)))
         THEN Reply(400, "Engineer only has capacity")
    ELSE IF ~Validates(body.allocationPercentage,
                NewDate(body.startDate), NewDate(body.endDate))
         THEN Reply(500, "validation failed")
    ELSE Reply(201, "")

CreateAssignment(tok, body) ==
    LET gate == RunChain(ManagerChain, tok, <<>>)
        out  == IF gate.status # 0 THEN Reply(gate.status, gate.error)
                ELSE CreateOutcome(users, projects, assignments, body)
    IN  /\ req' = Request("POST /api/assignments", tok, 0, body)
        /\ resp' = Response(out.status, out.error, gate.stages)
        /\ IF out.status = 201
           THEN /\ writes < MaxWrites
                /\ writes' = writes + 1
                /\ assignments' = assignments \cup {NewAssignment(nextId.assignment, body)}
                /\ nextId' = [nextId EXCEPT !.assignment = @ + 1]
           ELSE UNCHANGED <<assignments, nextId, writes>>
        /\ UNCHANGED <<users, projects, inflight>>

(***************************************************************************)
(* PUT /api/assignments/:id                                                *)
(***************************************************************************)
\* Casting the update to the schema: a date string becomes a Date, and an
\* uncastable value fails the whole update.
UpdateCasts(body) ==
    \A f \in DOMAIN body \cap {"startDate", "endDate"} : NewDate(body[f]).valid

\* findByIdAndUpdate(id, body, {new: true}): the fields of the body replace
\* the document's; schema validators do not run on updates.
ApplyUpdate(a, body) ==
    [f \in DOMAIN a |->
        IF f \in DOMAIN body /\ f # "id"
        THEN IF f \in {"startDate", "endDate"} THEN NewDate(body[f]).t ELSE body[f]
        ELSE a[f]]

UpdateOutcomeChecked(as, id, body) ==
    IF ~UpdateCasts(body) THEN Reply(500, "cast failed")
    ELSE IF FindById(as, id) = {} THEN Reply(404, "Assignment not found")
    ELSE LET a == CHOOSE x \in as : x.id = id
             b == ApplyUpdate(a, body)
         IN  IF ExceedsCapacity(b.allocationPercentage,
                    getAvailableCapacity(users, as \ {a}, b.engineerId,
                        [valid |-> TRUE, t |-> b.startDate],
                        [valid |-> TRUE, t |-> b.endDate]))
             THEN Reply(400, "Engineer only has capacity")
             ELSE Reply(200, "")

UpdateOutcome(as, id, body) ==
    IF ~UpdateCasts(body) THEN Reply(500, "cast failed")
    ELSE IF FindById(as, id) = {} THEN Reply(404, "Assignment not found")
    ELSE Reply(200, "")

UpdateAssignment(tok, id, body) ==
    LET gate == RunChain(ManagerChain, tok, <<>>)
        out  == IF gate.status # 0 THEN Reply(gate.status, gate.error)
                ELSE UpdateOutcome(assignments, id, body)
    IN  /\ req' = Request("PUT /api/assignments/:id", tok, id, body)
        /\ resp' = Response(out.status, out.error, gate.stages)
        /\ IF out.status = 200
           THEN /\ writes < MaxWrites
                /\ writes' = writes + 1
                /\ assignments' = {IF a.id = id THEN ApplyUpdate(a, body) ELSE a :
                                      a \in assignments}
           ELSE UNCHANGED <<assignments, writes>>
        /\ UNCHANGED <<users, projects, nextId, inflight>>

(***************************************************************************)
(* DELETE /api/assignments/:id                                             *)
(***************************************************************************)
DeleteAssignment(tok, id) ==
    LET gate == RunChain(ManagerChain, tok, <<>>)
        out  == IF gate.status # 0 THEN Reply(gate.status, gate.error)
                ELSE IF FindById(assignments, id) = {}
                     THEN Reply(404, "Assignment not found")
                ELSE Reply(200, "")
    IN  /\ req' = Request("DELETE /api/assignments/:id", tok, id, EmptyBody)
        /\ resp' = Response(out.status, out.error, gate.stages)
        /\ IF out.status = 200
           THEN /\ writes < MaxWrites
                /\ writes' = writes + 1
                /\ assignments' = assignments \ FindById(assignments, id)
           ELSE UNCHANGED <<assignments, writes>>
        /\ UNCHANGED <<users, projects, nextId, inflight>>

(***************************************************************************)
(* DELETE /api/projects/:id                                                *)
(***************************************************************************)
ActiveAssignmentsNone(as, id) == {}

\* Assignment.find({ projectId: id })
ActiveAssignments(as, id) == {a \in as : a.projectId = id}

DeleteProjectOutcome(ps, as, id) ==
    IF FindById(ps, id) = {} THEN Reply(404, "Project not found")
    ELSE IF Cardinality(ActiveAssignments(as, id)) > 0
         THEN Reply(400, "Cannot delete project with active assignments")
    ELSE Reply(200, "")

DeleteProject(tok, id) ==
    LET gate == RunChain(ManagerChain, tok, <<>>)
        out  == IF gate.status # 0 THEN Reply(gate.status, gate.error)
                ELSE DeleteProjectOutcome(projects, assignments, id)
    IN  /\ req' = Request("DELETE /api/projects/:id", tok, id, EmptyBody)
        /\ resp' = Response(out.status, out.error, gate.stages)
        /\ IF out.status = 200
           THEN /\ writes < MaxWrites
                /\ writes' = writes + 1
                /\ projects' = projects \ FindById(projects, id)
           ELSE UNCHANGED <<projects, writes>>
        /\ UNCHANGED <<users, assignments, nextId, inflight>>

\* A request that fails a middleware never reaches the body, so one body
\* stands for all of them there.
CreateInputs ==
    (ManagerTokens \X CreateBodies) \cup ((GateInputs \ ManagerTokens) \X {EmptyBody})

(***************************************************************************)
(* POST /api/projects, PUT /api/projects/:id                               *)
(***************************************************************************)
ProjectBodies ==
    { [name |-> "Billing Service", startDate |-> "2025-07-01",
       endDate |-> "2025-10-15", teamSize |-> 2],
      [startDate |-> "2025-07-01", endDate |-> "2025-10-15", teamSize |-> 2] }

ProjectUpdateBodies == { [name |-> "Renamed"] }

\* Schema validation of project.save(): name, startDate, endDate and
\* teamSize are required.  Of a project the handlers read its id alone; the
\* model keeps the id, the name and the manager.
ProjectValidates(body) ==
    /\ {"name", "startDate", "endDate", "teamSize"} \subseteq DOMAIN body
    /\ NewDate(body.startDate).valid
    /\ NewDate(body.endDate).valid

CreateProject(tok, body) ==
    LET gate == RunChain(ManagerChain, tok, <<>>)
        out  == IF gate.status # 0 THEN Reply(gate.status, gate.error)
                ELSE IF ~ProjectValidates(body) THEN Reply(500, "validation failed")
                ELSE Reply(201, "")
    IN  /\ req' = Request("POST /api/projects", tok, 0, body)
        /\ resp' = Response(out.status, out.error, gate.stages)
        /\ IF out.status = 201
           THEN /\ writes < MaxWrites
                /\ writes' = writes + 1
                /\ projects' = projects \cup
                       {[id |-> nextId.project, name |-> body.name,
                         managerId |-> tok.userId]}
                /\ nextId' = [nextId EXCEPT !.project = @ + 1]
           ELSE UNCHANGED <<projects, nextId, writes>>
        /\ UNCHANGED <<users, assignments, inflight>>

UpdateProject(tok, id, body) ==
    LET gate == RunChain(ManagerChain, tok, <<>>)
        out  == IF gate.status # 0 THEN Reply(gate.status, gate.error)
                ELSE IF FindById(projects, id) = {} THEN Reply(404, "Project not found")
                ELSE Reply(200, "")
    IN  /\ req' = Request("PUT /api/projects/:id", tok, id, body)
        /\ resp' = Response(out.status, out.error, gate.stages)
        /\ IF out.status = 200
           THEN /\ writes < MaxWrites
                /\ writes' = writes + 1
                /\ projects' = {IF p.id = id THEN ApplyUpdate(p, body) ELSE p :
                                   p \in projects}
           ELSE UNCHANGED <<projects, writes>>
        /\ UNCHANGED <<users, assignments, nextId, inflight>>

(***************************************************************************)
(* GET /api/analytics/utilization                                          *)
(***************************************************************************)
NowInputs == {"2025-06-01", "2025-08-01"}

\* Per engineer, the allocations of the assignments running on the current
\* date.  The percentage the handler derives from the two numbers is left
\* to the reader of the response.
UtilizationData(us, as, currentDate) ==
    { [engineerId |-> u.id, maxCapacity |-> u.maxCapacity,
       currentAllocation |->
           SumAllocation({a \in as : /\ a.engineerId = u.id
                                     /\ a.startDate <= currentDate
                                     /\ a.endDate >= currentDate})] :
      u \in {v \in us : v.role = "engineer"} }

Utilization(tok, now) ==
    LET gate == RunChain(ManagerChain, tok, <<>>)
    IN  /\ req' = Request("GET /api/analytics/utilization", tok, 0, EmptyBody)
        /\ resp' = IF gate.status # 0
                   THEN Response(gate.status, gate.error, gate.stages)
                   ELSE [Response(200, "", gate.stages) EXCEPT
                           !.utilization =
                               UtilizationData(users, assignments, NewDate(now).t)]
        /\ UNCHANGED <<users, projects, assignments, nextId, writes, inflight>>

(***************************************************************************)
(* The requests a client may send once the server is ready for one.        *)
(***************************************************************************)
SeedRequest == Ready /\ Seed

CapacityRequest ==
    /\ Ready
    /\ \E tok \in GateInputs, id \in EngineerIdInputs, s \in StartInputs, e \in EndInputs :
          GetCapacity(tok, id, s, e)

ListRequest == Ready /\ \E tok \in TokenInputs : ListAssignments(tok)

CreateRequest == Ready /\ \E in \in CreateInputs : CreateAssignment(in[1], in[2])

UpdateRequest ==
    /\ Ready
    /\ \E tok \in GateInputs, id \in AssignmentIdInputs, body \in UpdateBodies :
          UpdateAssignment(tok, id, body)

DeleteRequest ==
    Ready /\ \E tok \in GateInputs, id \in AssignmentIdInputs : DeleteAssignment(tok, id)

DeleteProjectRequest ==
    Ready /\ \E tok \in GateInputs, id \in ProjectIdInputs : DeleteProject(tok, id)

CreateProjectRequest ==
    Ready /\ \E tok \in GateInputs, body \in ProjectBodies : CreateProject(tok, body)

UpdateProjectRequest ==
    /\ Ready
    /\ \E tok \in GateInputs, id \in ProjectIdInputs, body \in ProjectUpdateBodies :
          UpdateProject(tok, id, body)

UtilizationRequest ==
    Ready /\ \E tok \in GateInputs, now \in NowInputs : Utilization(tok, now)

(***************************************************************************)
(* POST /api/assignments, one store operation at a time.  The handler      *)
(* awaits each operation, so another request's operations can run between  *)
(* two of its own.  A slot holds one request in flight: where it stands,   *)
(* its body, the engineer document the capacity helper read, and, once it  *)
(* ended, its status.                                                      *)
(***************************************************************************)
Flight(pc, body, read, capacity, status, error) ==
    [pc |-> pc, body |-> body, read |-> read, capacity |-> capacity,
     status |-> status, error |-> error]

Ended(f, reply) ==
    [f EXCEPT !.pc = "done", !.status = reply.status, !.error = reply.error]

ConcurrentBodies ==
    { [engineerId |-> e, projectId |-> p, allocationPercentage |-> x,
       startDate |-> s, endDate |-> "2025-10-15", role |-> "Developer"] :
      e \in EngineerIdInputs \ {NoSuchId}, p \in AssignedProjectInputs \ {NoSuchId},
      x \in {60}, s \in {"2025-08-01", "2025-10-15"} }

\* The middleware and the synchronous field check, up to the first await.
StartCreate(i, tok, body) ==
    LET gate == RunChain(ManagerChain, tok, <<>>)
        f    == Flight("findEngineer", body, {}, 0, 0, "")
    IN  /\ inflight[i] = Idle
        /\ inflight' = [inflight EXCEPT ![i] =
               IF gate.status # 0 THEN Ended(f, Reply(gate.status, gate.error))
               ELSE IF MissingRequired(body)
                    THEN Ended(f, Reply(400, "Missing required fields"))
               ELSE f]
        /\ UNCHANGED <<users, projects, assignments, nextId, writes, req, resp>>

\* await User.findById(engineerId)
FindEngineer(i) ==
    LET f == inflight[i]
    IN  /\ f # Idle
        /\ f.pc = "findEngineer"
        /\ inflight' = [inflight EXCEPT ![i] =
               IF FindById(users, f.body.engineerId) = {}
               THEN Ended(f, Reply(404, "Engineer not found"))
               ELSE [f EXCEPT !.pc = "findProject"]]
        /\ UNCHANGED <<users, projects, assignments, nextId, writes, req, resp>>

\* await Project.findById(projectId)
FindProject(i) ==
    LET f == inflight[i]
    IN  /\ f # Idle
        /\ f.pc = "findProject"
        /\ inflight' = [inflight EXCEPT ![i] =
               IF FindById(projects, f.body.projectId) = {}
               THEN Ended(f, Reply(404, "Project not found"))
               ELSE [f EXCEPT !.pc = "capacityUser"]]
        /\ UNCHANGED <<users, projects, assignments, nextId, writes, req, resp>>

\* getAvailableCapacity: await User.findById(engineerId)
CapacityUser(i) ==
    LET f == inflight[i]
    IN  /\ f # Idle
        /\ f.pc = "capacityUser"
        /\ inflight' = [inflight EXCEPT ![i] =
               [f EXCEPT !.pc = "capacityFind",
                         !.read = FindById(users, f.body.engineerId)]]
        /\ UNCHANGED <<users, projects, assignments, nextId, writes, req, resp>>

\* getAvailableCapacity: await Assignment.find(...), then the sum and the
\* comparison with the requested allocation, which need no further read.
CapacityFind(i) ==
    LET f   == inflight[i]
        cap == getAvailableCapacity(f.read, assignments, f.body.engineerId,
                   NewDate(f.body.startDate), NewDate(f.body.endDate))
    IN  /\ f # Idle
        /\ f.pc = "capacityFind"
        /\ inflight' = [inflight EXCEPT ![i] =
               IF ExceedsCapacity(f.body.allocationPercentage, cap)
               THEN [Ended(f, Reply(400, "Engineer only has capacity"))
                        EXCEPT !.capacity = cap]
               ELSE [f EXCEPT !.pc = "save", !.capacity = cap]]
        /\ UNCHANGED <<users, projects, assignments, nextId, writes, req, resp>>

SaveRechecked(i) ==
    LET f == inflight[i]
        ok == ~ExceedsCapacity(f.body.allocationPercentage,
                  getAvailableCapacity(users, assignments, f.body.engineerId,
                      NewDate(f.body.startDate), NewDate(f.body.endDate)))
    IN  /\ f # Idle
        /\ f.pc = "save"
        /\ IF ok
           THEN /\ writes < MaxWrites
                /\ writes' = writes + 1
                /\ assignments' = assignments \cup {NewAssignment(nextId.assignment, f.body)}
                /\ nextId' = [nextId EXCEPT !.assignment = @ + 1]
                /\ inflight' = [inflight EXCEPT ![i] = Ended(f, Reply(201, ""))]
           ELSE /\ inflight' = [inflight EXCEPT ![i] =
                                   Ended(f, Reply(400, "Engineer only has capacity"))]
                /\ UNCHANGED <<assignments, nextId, writes>>
        /\ UNCHANGED <<users, projects, req, resp>>

\* await assignment.save(): schema validation, then the insert.
Save(i) ==
    LET f == inflight[i]
    IN  /\ f # Idle
        /\ f.pc = "save"
        /\ IF Validates(f.body.allocationPercentage,
                        NewDate(f.body.startDate), NewDate(f.body.endDate))
           THEN /\ writes < MaxWrites
                /\ writes' = writes + 1
                /\ assignments' = assignments \cup {NewAssignment(nextId.assignment, f.body)}
                /\ nextId' = [nextId EXCEPT !.assignment = @ + 1]
                /\ inflight' = [inflight EXCEPT ![i] = Ended(f, Reply(201, ""))]
           ELSE /\ inflight' = [inflight EXCEPT ![i] =
                                   Ended(f, Reply(500, "validation failed"))]
                /\ UNCHANGED <<assignments, nextId, writes>>
        /\ UNCHANGED <<users, projects, req, resp>>

\* The response is sent and the request is over.
Finish(i) ==
    /\ inflight[i] # Idle
    /\ inflight[i].pc = "done"
    /\ inflight' = [inflight EXCEPT ![i] = Idle]
    /\ UNCHANGED <<users, projects, assignments, nextId, writes, req, resp>>

Next ==
    \/ SeedRequest
    \/ CapacityRequest
    \/ ListRequest
    \/ CreateRequest
    \/ UpdateRequest
    \/ DeleteRequest
    \/ DeleteProjectRequest
    \/ CreateProjectRequest
    \/ UpdateProjectRequest
    \/ UtilizationRequest
    \/ Complete

Spec == Init /\ [][Next]_vars

(***************************************************************************)
(* Requests served one at a time, assignment creations and assignment      *)
(* deletions only, over the empty store and over the seeded store.         *)
(***************************************************************************)
NextCreateDelete ==
    \/ SeedRequest
    \/ CreateRequest
    \/ DeleteRequest
    \/ Complete

SpecCreateDelete == Init /\ [][NextCreateDelete]_vars

(***************************************************************************)
(* Interleaved requests: assignment creations in flight together, with     *)
(* assignment deletions (one store operation each) between their store     *)
(* operations, and seed requests while no creation is in flight.           *)
(***************************************************************************)
Slots == 1..MaxInFlight

\* A new request takes the first free slot.
FreeSlot(i) == inflight[i] = Idle /\ \A j \in Slots : j < i => inflight[j] # Idle

StartCreateRequest ==
    \E i \in Slots, tok \in ManagerTokens, body \in ConcurrentBodies :
        FreeSlot(i) /\ StartCreate(i, tok, body)

FindEngineerStep == \E i \in Slots : FindEngineer(i)

FindProjectStep == \E i \in Slots : FindProject(i)

CapacityUserStep == \E i \in Slots : CapacityUser(i)

CapacityFindStep == \E i \in Slots : CapacityFind(i)

SaveStep == \E i \in Slots : Save(i)

FinishStep == \E i \in Slots : Finish(i)

QuietSeedRequest == SeedRequest /\ \A i \in Slots : inflight[i] = Idle

ManagerDeleteRequest ==
    /\ Ready
    /\ \E tok \in ManagerTokens, id \in AssignmentIdInputs \ {NoSuchId} :
          DeleteAssignment(tok, id)

NextInterleaved ==
    \/ QuietSeedRequest
    \/ ManagerDeleteRequest
    \/ Complete
    \/ StartCreateRequest
    \/ FindEngineerStep
    \/ FindProjectStep
    \/ CapacityUserStep
    \/ CapacityFindStep
    \/ SaveStep
    \/ FinishStep

SpecInterleaved == Init /\ [][NextInterleaved]_vars

(***************************************************************************)
(* Interleaved project deletions: DELETE /api/projects/:id split at its    *)
(* awaits, in flight together with assignment creations, with assignment   *)
(* deletions (one store operation each) between their store operations.    *)
(* A request in flight for a project keeps the id in its body.             *)
(***************************************************************************)
\* The middleware, up to the first await.
StartDeleteProject(i, tok, id) ==
    LET gate == RunChain(ManagerChain, tok, <<>>)
        f    == Flight("projectFindById", [projectId |-> id], {}, 0, 0, "")
    IN  /\ inflight[i] = Idle
        /\ inflight' = [inflight EXCEPT ![i] =
               IF gate.status # 0 THEN Ended(f, Reply(gate.status, gate.error))
               ELSE f]
        /\ UNCHANGED <<users, projects, assignments, nextId, writes, req, resp>>

\* await Project.findById(id)
ProjectFindById(i) ==
    LET f == inflight[i]
    IN  /\ f # Idle
        /\ f.pc = "projectFindById"
        /\ inflight' = [inflight EXCEPT ![i] =
               IF FindById(projects, f.body.projectId) = {}
               THEN Ended(f, Reply(404, "Project not found"))
               ELSE [f EXCEPT !.pc = "assignmentFind"]]
        /\ UNCHANGED <<users, projects, assignments, nextId, writes, req, resp>>

\* await Assignment.find({ projectId: id }), then the length test.
AssignmentFind(i) ==
    LET f == inflight[i]
    IN  /\ f # Idle
        /\ f.pc = "assignmentFind"
        /\ inflight' = [inflight EXCEPT ![i] =
               IF Cardinality(ActiveAssignments(assignments, f.body.projectId)) > 0
               THEN Ended(f, Reply(400, "Cannot delete project with active assignments"))
               ELSE [f EXCEPT !.pc = "findByIdAndDelete"]]
        /\ UNCHANGED <<users, projects, assignments, nextId, writes, req, resp>>

\* await Project.findByIdAndDelete(id): the answer is 200 whether or not a
\* document was still there.  Only a seed stores projects here, so removals
\* are bounded without drawing on the write budget.
FindByIdAndDelete(i) ==
    LET f == inflight[i]
    IN  /\ f # Idle
        /\ f.pc = "findByIdAndDelete"
        /\ projects' = projects \ FindById(projects, f.body.projectId)
        /\ inflight' = [inflight EXCEPT ![i] = Ended(f, Reply(200, ""))]
        /\ UNCHANGED <<users, assignments, nextId, writes, req, resp>>

StartDeleteProjectRequest ==
    \E i \in Slots, tok \in ManagerTokens, id \in AssignedProjectInputs \ {NoSuchId} :
        FreeSlot(i) /\ StartDeleteProject(i, tok, id)

ProjectFindByIdStep == \E i \in Slots : ProjectFindById(i)

AssignmentFindStep == \E i \in Slots : AssignmentFind(i)

FindByIdAndDeleteStep == \E i \in Slots : FindByIdAndDelete(i)

NextReferences ==
    \/ QuietSeedRequest
    \/ ManagerDeleteRequest
    \/ Complete
    \/ StartCreateRequest
    \/ FindEngineerStep
    \/ FindProjectStep
    \/ CapacityUserStep
    \/ CapacityFindStep
    \/ SaveStep
    \/ StartDeleteProjectRequest
    \/ ProjectFindByIdStep
    \/ AssignmentFindStep
    \/ FindByIdAndDeleteStep
    \/ FinishStep

SpecReferences == Init /\ [][NextReferences]_vars

(***************************************************************************)
(* Properties.                                                             *)
(***************************************************************************)
CapacityRoute == "GET /api/engineers/:id/capacity"

CreateRoute == "POST /api/assignments"

StoredDates == {DayOfYear[d] : d \in DOMAIN DayOfYear}

Date(t) == [valid |-> TRUE, t |-> t]

\* The sum of the allocations of the assignments with an id below n that
\* belong to engineer E and satisfy startDate <= e and endDate >= s.
RECURSIVE AllocatedBelow(_, _, _, _)
AllocatedBelow(n, E, s, e) ==
    IF n = 0 THEN 0
    ELSE LET hit == {a \in assignments : /\ a.id = n
                                          /\ a.engineerId = E
                                          /\ a.startDate <= e
                                          /\ a.endDate >= s}
         IN  (IF hit = {} THEN 0 ELSE (CHOOSE a \in hit : TRUE).allocationPercentage)
                 + AllocatedBelow(n - 1, E, s, e)

Allocated(E, s, e) == AllocatedBelow(nextId.assignment, E, s, e)

ExpectedCapacity(E, s, e) ==
    IF \A u \in users : u.id # E THEN 0
    ELSE LET m == (CHOOSE u \in users : u.id = E).maxCapacity
             S == Allocated(E, s, e)
         IN  IF m - S > 0 THEN m - S ELSE 0

\* C1: for every engineer id E and every interval [s,e] of dates,
\* getAvailableCapacity(E,s,e) is 0 when no user has id E and otherwise
\* max(0, maxCapacity - S), S being the sum of allocationPercentage over
\* exactly E's stored assignments with startDate <= e and endDate >= s, both
\* boundaries inclusive; and that is the number the capacity endpoint answers.
C1_AvailableCapacity ==
    /\ Ready =>
         \A E \in 0..nextId.user, s \in StoredDates, e \in StoredDates :
            getAvailableCapacity(users, assignments, E, Date(s), Date(e))
                = ExpectedCapacity(E, s, e)
    /\ (req.route = CapacityRoute /\ resp.status = 200
          /\ NewDate(req.body.startDate).valid /\ NewDate(req.body.endDate).valid) =>
         resp.capacity = ExpectedCapacity(req.id, NewDate(req.body.startDate).t,
                                          NewDate(req.body.endDate).t)

\* A capacity answer for an engineer one of whose assignments ends on the
\* very day the query starts, while another engineer holds an assignment
\* overlapping the query: the first is counted, the second is not.
C1_Witness ==
    /\ req.route = CapacityRoute
    /\ resp.status = 200
    /\ NewDate(req.body.startDate).valid
    /\ NewDate(req.body.endDate).valid
    /\ \E a \in assignments :
          /\ a.engineerId = req.id
          /\ a.endDate = NewDate(req.body.startDate).t
    /\ \E b \in assignments :
          /\ b.engineerId # req.id
          /\ Overlaps(b, NewDate(req.body.startDate).t, NewDate(req.body.endDate).t)
    /\ resp.capacity = 10

ManagerRoutes ==
    { "POST /api/projects", "PUT /api/projects/:id", "DELETE /api/projects/:id",
      "POST /api/assignments", "PUT /api/assignments/:id",
      "DELETE /api/assignments/:id", "GET /api/analytics/utilization" }

ByManager(r) == r.token.kind = "valid" /\ r.token.role = "manager"

AllPresent(body) == RequiredFields \subseteq DOMAIN body

\* The request comes from a manager, carries the six fields, and names a
\* stored engineer and a stored project.
ReadsCapacity(r) ==
    /\ r.route = CreateRoute
    /\ ByManager(r)
    /\ AllPresent(r.body)
    /\ \E u \in users : u.id = r.body.engineerId
    /\ \E q \in projects : q.id = r.body.projectId

WindowCapacity(r) ==
    getAvailableCapacity(users, assignments, r.body.engineerId,
        NewDate(r.body.startDate), NewDate(r.body.endDate))

\* C2: a POST /api/assignments request that reads the engineer's available
\* capacity over its own window and asks for more than it read is answered
\* 400, and users, projects and assignments stay as they were.
C2_OverCapacityRejected ==
    [][ (ReadsCapacity(req') /\ req'.body.allocationPercentage > WindowCapacity(req'))
          => (resp'.status = 400 /\ store' = store) ]_vars

\* A creation asking for 60 of an existing engineer who has 40 left over the
\* window, answered 400.
C2_Witness ==
    /\ ReadsCapacity(req)
    /\ req.body.allocationPercentage = 60
    /\ WindowCapacity(req) = 40
    /\ resp.status = 400
    /\ resp.error = "Engineer only has capacity"

\* The windows of two assignments share a day.
WindowsOverlap(a, b) == a.startDate <= b.endDate /\ a.endDate >= b.startDate

StepsFrom(i, pc) ==
    /\ inflight[i] # Idle
    /\ inflight[i].pc = pc
    /\ inflight'[i] # inflight[i]

\* C3: nothing between the capacity read and the insert stops a creation:
\* a request that passed the capacity check with the capacity it read is
\* inserted by its save whatever the store holds by then, the allocations
\* other requests inserted in between included.
C3_SaveWithoutRecheck ==
    [][ \A i \in Slots :
          (StepsFrom(i, "save")
             /\ Validates(inflight[i].body.allocationPercentage,
                    NewDate(inflight[i].body.startDate),
                    NewDate(inflight[i].body.endDate))) =>
            /\ inflight'[i].status = 201
            /\ assignments' =
                  assignments \cup {NewAssignment(nextId.assignment, inflight[i].body)}
      ]_vars

\* Two creations of 60 for the same engineer over overlapping windows both
\* read a capacity of 100, both answered 201, and the engineer's stored
\* allocations over the window now add up to more than maxCapacity.
C3_Witness ==
    \E i, j \in Slots :
       /\ i # j
       /\ inflight[i] # Idle /\ inflight[j] # Idle
       /\ inflight[i].status = 201 /\ inflight[j].status = 201
       /\ inflight[i].capacity = 100 /\ inflight[j].capacity = 100
       /\ inflight[i].body.allocationPercentage = 60
       /\ inflight[j].body.allocationPercentage = 60
       /\ inflight[i].body.engineerId = inflight[j].body.engineerId
       /\ \E u \in users, a \in assignments, b \in assignments :
             /\ u.id = inflight[i].body.engineerId
             /\ a.id # b.id
             /\ a.engineerId = u.id /\ b.engineerId = u.id
             /\ WindowsOverlap(a, b)
             /\ Allocated(u.id, a.startDate, a.endDate) > u.maxCapacity

DeleteProjectRoute == "DELETE /api/projects/:id"

Referenced(id) == \E a \in assignments : a.projectId = id

\* C4: served one at a time, a manager's DELETE /api/projects/:id is answered
\* 400 with projects and assignments unchanged when the project exists and an
\* assignment references it; removes exactly that project, changing nothing
\* else, when it exists and no assignment references it; and is answered 404,
\* changing nothing, when no project has the id.
C4_DeleteProject ==
    [][ (req'.route = DeleteProjectRoute /\ ByManager(req')) =>
          LET id == req'.id
              exists == \E q \in projects : q.id = id
          IN  /\ (exists /\ Referenced(id)) =>
                    (resp'.status = 400 /\ store' = store)
              /\ (exists /\ ~Referenced(id)) =>
                    /\ resp'.status = 200
                    /\ projects' = {q \in projects : q.id # id}
                    /\ assignments' = assignments
                    /\ users' = users
              /\ ~exists => (resp'.status = 404 /\ store' = store) ]_vars

\* A project that had lost its last assignment has just been deleted, while
\* other projects and assignments remain.
C4_Witness ==
    /\ req.route = DeleteProjectRoute
    /\ resp.status = 200
    /\ \A q \in projects : q.id # req.id
    /\ projects # {}
    /\ assignments # {}

ListRoute == "GET /api/assignments"

Listed(r) == {r.list[i] : i \in DOMAIN r.list}

\* C5: GET /api/assignments answers an engineer with exactly the stored
\* assignments whose engineerId is the caller's userId, each once, and a
\* manager with all stored assignments, each once; the store is unchanged.
C5_ListVisibility ==
    [][ (req'.route = ListRoute /\ resp'.status = 200) =>
          /\ req'.token.role = "engineer" =>
                Listed(resp') = {a \in assignments : a.engineerId = req'.token.userId}
          /\ req'.token.role = "manager" => Listed(resp') = assignments
          /\ Len(resp'.list) = Cardinality(Listed(resp'))
          /\ store' = store ]_vars

\* An engineer has listed assignments, got one, and the store holds
\* assignments of other engineers.
C5_Witness ==
    /\ req.route = ListRoute
    /\ req.token.role = "engineer"
    /\ resp.status = 200
    /\ Len(resp.list) = 1
    /\ \E a \in assignments : a.engineerId # req.token.userId

\* C6: a request to a manager-gated route runs authenticateToken, then
\* requireManager, then the handler.  Without a token it ends in 401 after
\* authenticateToken; with a token that fails verification, in 403 after
\* authenticateToken; with a verified token of another role, in 403 after
\* requireManager; in the three cases the handler does not run and users,
\* projects and assignments are unchanged.  The handler runs only after both.
C6_ManagerGate ==
    [][ req'.route \in ManagerRoutes =>
          /\ req'.token.kind = "none" =>
                /\ resp'.status = 401
                /\ resp'.stages = <<"authenticateToken">>
                /\ store' = store
          /\ req'.token.kind = "bad" =>
                /\ resp'.status = 403
                /\ resp'.stages = <<"authenticateToken">>
                /\ store' = store
          /\ (req'.token.kind = "valid" /\ req'.token.role # "manager") =>
                /\ resp'.status = 403
                /\ resp'.stages = <<"authenticateToken", "requireManager">>
                /\ store' = store
          /\ (\E i \in DOMAIN resp'.stages : resp'.stages[i] = "handler") =>
                resp'.stages = <<"authenticateToken", "requireManager", "handler">>
       ]_vars

\* An engineer's verified token on POST /api/assignments, stopped by
\* requireManager.
C6_Witness ==
    /\ req.route = CreateRoute
    /\ req.token.kind = "valid"
    /\ req.token.role = "engineer"
    /\ resp.status = 403
    /\ resp.stages = <<"authenticateToken", "requireManager">>
    /\ assignments # {}

\* The stated [s,e] is an interval: both dates parse and s is not after e.
IsInterval(body) ==
    /\ NewDate(body.startDate).valid
    /\ NewDate(body.endDate).valid
    /\ NewDate(body.startDate).t <= NewDate(body.endDate).t

\* C7: served one at a time, a manager's POST /api/assignments with the six
\* fields, a stored engineer, a stored project and an allocation p in [0,100]
\* not above the capacity c available over the window [s,e] is answered 201,
\* adds exactly one assignment with the request's values, and leaves c - p
\* available over [s,e].
C7_CreateWithinCapacity ==
    [][ (ReadsCapacity(req') /\ IsInterval(req'.body)
           /\ req'.body.allocationPercentage >= 0
           /\ req'.body.allocationPercentage <= 100
           /\ req'.body.allocationPercentage <= WindowCapacity(req')) =>
          /\ resp'.status = 201
          /\ \E a \in assignments' :
                /\ a \notin assignments
                /\ assignments' = assignments \cup {a}
                /\ a.engineerId = req'.body.engineerId
                /\ a.projectId = req'.body.projectId
                /\ a.allocationPercentage = req'.body.allocationPercentage
                /\ a.startDate = NewDate(req'.body.startDate).t
                /\ a.endDate = NewDate(req'.body.endDate).t
                /\ a.role = req'.body.role
          /\ getAvailableCapacity(users', assignments', req'.body.engineerId,
                 NewDate(req'.body.startDate), NewDate(req'.body.endDate))
               = WindowCapacity(req') - req'.body.allocationPercentage ]_vars

\* C8: a manager's POST /api/assignments lacking any of the six fields is
\* answered 400; with the six fields present and an engineerId matching no
\* user, 404; with a stored engineer and a projectId matching no project,
\* 404; the checks run in the order fields, engineer, project, capacity; and
\* every rejection leaves the assignments unchanged.
C8_CreateValidationOrder ==
    [][ (req'.route = CreateRoute /\ ByManager(req')) =>
          LET body == req'.body
              noEngineer == \A u \in users : u.id # body.engineerId
              noProject  == \A q \in projects : q.id # body.projectId
          IN  /\ ~AllPresent(body) =>
                    (resp'.status = 400 /\ resp'.error = "Missing required fields")
              /\ (AllPresent(body) /\ noEngineer) =>
                    (resp'.status = 404 /\ resp'.error = "Engineer not found")
              /\ (AllPresent(body) /\ ~noEngineer /\ noProject) =>
                    (resp'.status = 404 /\ resp'.error = "Project not found")
              /\ resp'.status # 201 => assignments' = assignments ]_vars

\* C9: every stored assignment has an allocationPercentage within [0,100].
C9_AllocationBounded ==
    \A a \in assignments :
        a.allocationPercentage >= 0 /\ a.allocationPercentage <= 100

UpdateRoute == "PUT /api/assignments/:id"

\* C10: a manager's PUT /api/assignments/:id with a body the schema can cast
\* replaces the named fields of an existing assignment and is answered 200
\* whatever capacity the engineer has left, and is answered 404, changing
\* nothing, when no assignment has the id.
C10_UpdateUnchecked ==
    [][ (req'.route = UpdateRoute /\ ByManager(req') /\ UpdateCasts(req'.body)) =>
          LET id == req'.id
              exists == \E a \in assignments : a.id = id
          IN  /\ exists =>
                    /\ resp'.status = 200
                    /\ \A a \in assignments :
                          \E b \in assignments' :
                             /\ b.id = a.id
                             /\ \A f \in DOMAIN a \ {"startDate", "endDate"} :
                                   b[f] = IF a.id = id /\ f \in DOMAIN req'.body
                                          THEN req'.body[f] ELSE a[f]
                             /\ \A f \in {"startDate", "endDate"} :
                                   b[f] = IF a.id = id /\ f \in DOMAIN req'.body
                                          THEN NewDate(req'.body[f]).t ELSE a[f]
                    /\ Cardinality(assignments') = Cardinality(assignments)
                    /\ users' = users /\ projects' = projects
              /\ ~exists => (resp'.status = 404 /\ store' = store) ]_vars

\* An assignment created through POST within the engineer's capacity has
\* just been raised by PUT, and the engineer's allocations over its window
\* now exceed maxCapacity.
C10_Witness ==
    /\ req.route = UpdateRoute
    /\ resp.status = 200
    /\ "allocationPercentage" \in DOMAIN req.body
    /\ \E a \in assignments, u \in users :
          /\ a.id = req.id
          /\ a.role = "Developer"
          /\ u.id = a.engineerId
          /\ a.allocationPercentage <= u.maxCapacity
          /\ a.startDate <= a.endDate
          /\ Allocated(u.id, a.startDate, a.endDate) > u.maxCapacity

\* The sum of the allocations of engineer E's assignments that hold on day d.
AllocatedOn(E, d) == Allocated(E, d, d)

\* C11: with requests served one at a time and only assignment creations and
\* assignment deletions after the store was empty or freshly seeded, for
\* every user and every single day d the allocations of the user's
\* assignments with startDate <= d <= endDate sum to at most the user's
\* maxCapacity.
C11_PerDayWithinCapacity ==
    \A u \in users, d \in StoredDates : AllocatedOn(u.id, d) <= u.maxCapacity

\* A creation has just been answered 201 for an engineer whose allocations
\* stay within maxCapacity on every day, while those overlapping a longer
\* window sum to more than maxCapacity.
C11_Witness ==
    /\ req.route = CreateRoute
    /\ resp.status = 201
    /\ \E u \in users, s \in StoredDates, e \in StoredDates :
          /\ u.id = req.body.engineerId
          /\ s < e
          /\ Allocated(u.id, s, e) > u.maxCapacity
          /\ \A d \in StoredDates : AllocatedOn(u.id, d) <= u.maxCapacity

\* C12: however DELETE /api/projects/:id, POST /api/assignments and
\* DELETE /api/assignments/:id requests interleave at their store
\* operations, every stored assignment references a stored project.
C12_NoDanglingProject ==
    \A a \in assignments : \E p \in projects : p.id = a.projectId

====
